---- MODULE Spec2Model ----
(***************************************************************************)
(* A model of the coffee-leaf RAG assistant: the answer router             *)
(* (rag_chat.generate_answer), the window memory of the retrieval chain    *)
(* (rag_chat.prepare_rag_llm) and the Streamlit page script (main.main),   *)
(* one script run per step.                                                *)
(*                                                                         *)
(* Text is modelled by TLA+ strings, and the string operations of the code *)
(* (lower, strip, split, in, startswith) are computed character by         *)
(* character.                                                              *)
(***************************************************************************)
EXTENDS Integers, Sequences, FiniteSets, TLC

\* ------------------------------------------------------------------ text

Char(s, i) == SubSeq(s, i, i)

\* str.lower() on one character.
ToLower ==
    [c \in {"A", "B", "C", "D", "E", "F", "G", "H", "I", "J", "K", "L", "M", "N",
            "O", "P", "Q", "R", "S", "T", "U", "V", "W", "X", "Y", "Z"} |->
        CASE c = "A" -> "a" [] c = "B" -> "b" [] c = "C" -> "c" [] c = "D" -> "d"
          [] c = "E" -> "e" [] c = "F" -> "f" [] c = "G" -> "g" [] c = "H" -> "h"
          [] c = "I" -> "i" [] c = "J" -> "j" [] c = "K" -> "k" [] c = "L" -> "l"
          [] c = "M" -> "m" [] c = "N" -> "n" [] c = "O" -> "o" [] c = "P" -> "p"
          [] c = "Q" -> "q" [] c = "R" -> "r" [] c = "S" -> "s" [] c = "T" -> "t"
          [] c = "U" -> "u" [] c = "V" -> "v" [] c = "W" -> "w" [] c = "X" -> "x"
          [] c = "Y" -> "y" [] OTHER -> "z"]

LowerChar(c) == IF c \in DOMAIN ToLower THEN ToLower[c] ELSE c

\* str.lower(), by halves.
RECURSIVE Lower(_)
Lower(s) ==
    IF Len(s) = 0 THEN ""
    ELSE IF Len(s) = 1 THEN LowerChar(s)
    ELSE Lower(SubSeq(s, 1, Len(s) \div 2)) \o Lower(SubSeq(s, Len(s) \div 2 + 1, Len(s)))

\* `sub in s` on strings.
Contains(s, sub) ==
    \E i \in 0..(Len(s) - Len(sub)) : SubSeq(s, i + 1, i + Len(sub)) = sub

IsSpace(c) == c \in {" ", "\t", "\n"}

\* str.strip()
Strip(s) ==
    IF \A i \in 1..Len(s) : IsSpace(Char(s, i)) THEN ""
    ELSE SubSeq(s,
                CHOOSE i \in 1..Len(s) :
                    ~IsSpace(Char(s, i)) /\ \A j \in 1..(i - 1) : IsSpace(Char(s, j)),
                CHOOSE i \in 1..Len(s) :
                    ~IsSpace(Char(s, i)) /\ \A j \in (i + 1)..Len(s) : IsSpace(Char(s, j)))

\* str.startswith(p)
StartsWith(s, p) == Len(s) >= Len(p) /\ SubSeq(s, 1, Len(p)) = p

\* set(s.split()): the maximal runs of non-space characters of s.
Words(s) ==
    LET inked  == { i \in 1..Len(s) : ~IsSpace(Char(s, i)) }
        starts == { i \in inked : i - 1 \notin inked }
    IN  { SubSeq(s, i, CHOOSE j \in i..Len(s) :
                           j + 1 \notin inked /\ \A m \in i..(j - 1) : m + 1 \in inked) :
            i \in starts }

\* s.split(sep)[-1]: what follows the last occurrence of sep (s itself if none).
AfterLast(s, sep) ==
    LET hits == { i \in 0..(Len(s) - Len(sep)) : SubSeq(s, i + 1, i + Len(sep)) = sep }
    IN  IF hits = {} THEN s
        ELSE LET last == CHOOSE i \in hits : \A j \in hits : j <= i
             IN  SubSeq(s, last + Len(sep) + 1, Len(s))

\* ------------------------------------------------- the retrieval chain

None == "None"

\* ConversationBufferWindowMemory(k=5)
k == 5

Max(a, b) == IF a >= b THEN a ELSE b

Message(type, content) == [type |-> type, content |-> content]

\* A memory without the window: a chain call reads every message.
LoadMemoryVariables_Unbounded(buf) == buf

\* The window a chain call reads as chat_history: buffer[-k * 2:] if k > 0 else [].
LoadMemoryVariables(buf) ==
    IF k > 0
    THEN SubSeq(buf, Max(1, Len(buf) - k * 2 + 1), Len(buf))
    ELSE <<>>

\* A chain that saves no turn.
SaveContext_Nothing(buf, q, answer) == buf

\* What a successful chain call appends: the question and the chain's own answer.
SaveContext(buf, q, answer) ==
    buf \o <<Message("human", q), Message("ai", answer)>>

\* A response of the conversation callable: a dict with an answer and source
\* documents ("ok"), an exception ("raise"), or a value that is no dict
\* ("nondict", answer holding its str()).
ChainResp(kind, answer, docs) == [kind |-> kind, answer |-> answer, docs |-> docs]

\* A response of llm.predict: a text ("ok") or an exception ("raise").
LLMResp(kind, text) == [kind |-> kind, text |-> text]

\* ------------------------------------------------------ generate_answer

coffee_keywords ==
    {"coffee", "leaf", "disease", "plant", "crop", "fungus", "pest", "treatment",
     "remedy", "cultivation", "agriculture", "farming"}

general_greetings ==
    {"hi", "hello", "good morning", "good afternoon", "good evening",
     "how are you", "thanks", "thank you"}

is_coffee_related(q) ==
    LET q_lower == Lower(q)
    IN  \E keyword \in coffee_keywords : Contains(q_lower, Lower(keyword))

is_greeting(q) ==
    LET q_lower == Lower(q)
    IN  \E greeting \in general_greetings : Contains(q_lower, Lower(greeting))

\* The "Helpful Answer:" cleanup of the chain's answer.
CleanAnswer(answer) ==
    IF Contains(answer, "Helpful Answer:")
    THEN Strip(AfterLast(answer, "Helpful Answer:"))
    ELSE answer

\* any(irrelevant_indicators), on the cleaned answer.
irrelevant_indicators(q, answer) ==
    LET answer_lower == Lower(answer)
        q_lower      == Lower(q)
    IN  \/ Contains(answer_lower, "according to the provided coffee leaf disease guide")
        \/ Contains(answer_lower, "leaf miner") /\ ~Contains(q_lower, "leaf miner")
        \/ Len(Strip(answer)) < 20
        \/ StartsWith(Strip(answer), "*") /\ ~Contains(answer_lower, q_lower)

\* similarity_score < 0.1, with similarity_score = |common| / max(|question_words|, 1).
low_similarity(q, answer) ==
    LET question_words == Words(Lower(q))
        answer_words   == Words(Lower(answer))
        common_words   == question_words \cap answer_words
    IN  10 * Cardinality(common_words) < Max(Cardinality(question_words), 1)

\* The fallback decided by the indicators alone, the similarity check left out.
UseFallback_IndicatorsOnly(q, answer) == irrelevant_indicators(q, answer)

UseFallback(q, answer) ==
    irrelevant_indicators(q, answer) \/ low_similarity(q, answer)

\* The "Clean up sources" step.
CleanSources(sources) ==
    IF sources = <<>> \/ \A i \in 1..Len(sources) : Len(Strip(sources[i])) < 20
    THEN <<"Retrieved from knowledge base">>
    ELSE sources

NotInitializedMsg == "RAG system not initialized."
HelloMsg == "Hello! I'm here to help you with coffee leaf diseases and cultivation questions. How can I assist you today?"
ApologyMsg == "I apologize, but I'm currently experiencing technical difficulties. Please try asking your question again."
SorryMsg == "I'm sorry, I'm unable to process your question right now. Please try again later."

SrcGeneral == "Generated from general knowledge"
SrcAgricultural == "Generated from general agricultural knowledge"
SrcUnavailable == "Generated from general knowledge (system temporarily unavailable)"
SrcNoSources == "No sources available"

\* What generate_answer returns and whom it calls: the (answer, sources) pair, the
\* questions the chain was invoked with, the prompts given to llm.predict, and
\* the branch that returned.
Reply(answer, sources, chain_calls, llm_calls, path) ==
    [answer |-> answer, sources |-> sources, chain_calls |-> chain_calls,
     llm_calls |-> llm_calls, path |-> path]

\* Lines 87-108: the direct LLM reply to a greeting or an off-topic question.
DirectReply(q, lr) ==
    LET prompt == IF is_greeting(q) THEN "greeting" ELSE "redirect"
    IN  IF lr.kind = "ok"
        THEN Reply(Strip(lr.text), <<SrcGeneral>>, <<>>, <<prompt>>, "direct")
        ELSE Reply(HelloMsg, <<>>, <<>>, <<prompt>>, "direct_failed")

\* Lines 114-160: the chain returned a dict with an answer.
ChainAnswered(q, lm, cr, lr) ==
    LET answer == CleanAnswer(cr.answer)
    IN  IF UseFallback(q, answer) /\ lm # None
        THEN IF lr.kind = "ok"
             THEN Reply(Strip(lr.text), CleanSources(<<SrcAgricultural>>), <<q>>,
                        <<"expert">>, "chain_replaced")
             ELSE Reply(answer, CleanSources(cr.docs), <<q>>, <<"expert">>, "chain_kept")
        ELSE Reply(answer, CleanSources(cr.docs), <<q>>, <<>>,
                   IF UseFallback(q, answer) THEN "chain_kept" ELSE "chain")

\* The handler of a chain failure with no try around its own llm.predict: the
\* LLM's exception leaves generate_answer.
ChainFailed_Unguarded(q, lm, lr) ==
    IF lm # None
    THEN IF lr.kind = "ok"
         THEN Reply(lr.text, <<SrcUnavailable>>, <<q>>, <<"unavailable">>, "unavailable")
         ELSE Reply("", <<>>, <<q>>, <<"unavailable">>, "raised")
    ELSE Reply(SorryMsg, <<>>, <<q>>, <<>>, "failed")

\* Lines 166-186: the chain raised.
ChainFailed(q, lm, lr) ==
    IF lm # None
    THEN IF lr.kind = "ok"
         THEN Reply(lr.text, <<SrcUnavailable>>, <<q>>, <<"unavailable">>, "unavailable")
         ELSE Reply(ApologyMsg, <<>>, <<q>>, <<"unavailable">>, "failed")
    ELSE Reply(SorryMsg, <<>>, <<q>>, <<>>, "failed")

\* Whether lines 87-108 return: a greeting or an off-topic question, with an llm.
TakesDirectPath(q, lm) ==
    (is_greeting(q) \/ ~is_coffee_related(q)) /\ lm # None

\* The body of generate_answer(question, conversation, llm), given what the
\* conversation callable (cr) and llm.predict (lr) do when they are called.
Route(q, conv, lm, cr, lr) ==
    IF conv = None
    THEN Reply(NotInitializedMsg, <<>>, <<>>, <<>>, "none")
    ELSE IF TakesDirectPath(q, lm)
    THEN DirectReply(q, lr)
    ELSE CASE cr.kind = "ok" -> ChainAnswered(q, lm, cr, lr)
           [] cr.kind = "nondict" -> Reply(cr.answer, <<SrcNoSources>>, <<q>>, <<>>, "nondict")
           [] OTHER -> ChainFailed(q, lm, lr)

\* ---------------------------------------------------------------- state

VARIABLES
    \* config.GROQ_API_KEY is set; read once, when config is imported
    api_key,
    \* st.session_state
    initialised,         \* "conversation" in st.session_state
    conversation,        \* None or the retrieval chain
    llm,                 \* None or the ChatGroq client
    memory,              \* None or the window memory
    buffer,              \* the messages the window memory holds
    chat_history,        \* the (speaker, message) pairs of the chat thread
    detection_completed,
    latest_sources,      \* [present, value]: the latest_sources attribute
    \* the widgets and the page
    uploaded_file,       \* the file uploader's value: "none" or an image
    rerun_pending,       \* st.rerun() was called by the last script run
    page,                \* what the last script run rendered
    event,               \* the widget event the last script run handled
    \* the last generate_answer call for a question of the user
    question,
    chain_resp,          \* what the conversation callable does when invoked
    llm_resp,            \* what llm.predict does when invoked
    before,              \* the memory buffer when the call started
    thread_info,         \* per exchange of chat_history: the branch that answered
                         \* it and the chain's own answer
    out,                 \* the call's Outcome
    pc

vars == <<api_key, initialised, conversation, llm, memory, buffer, chat_history,
          detection_completed, latest_sources, uploaded_file, rerun_pending, page,
          event, question, chain_resp, llm_resp, before, thread_info, out, pc>>

session_vars == <<api_key, initialised, memory, chat_history, detection_completed,
                  latest_sources, uploaded_file, rerun_pending, page, event>>

NoChainResp == ChainResp("raise", "", <<>>)
NoLLMResp == LLMResp("raise", "")
Event(kind, text, file) == [kind |-> kind, text |-> text, file |-> file]
NoEvent == Event("none", "", "none")
NoSources == [present |-> FALSE, value |-> <<>>]
BlankPage ==
    [rendered |-> "nothing", remedy_path |-> "not_called", remedy_expander |-> FALSE,
     chat_section |-> FALSE, thread |-> <<>>, sources_expander |-> FALSE,
     sources_notice |-> FALSE, clear_button |-> FALSE]

\* ------------------------------------- one call of generate_answer (SpecGA)

RemedyQuestion(diseases) ==
    "What is the remedy for " \o diseases \o
    " in coffee leaves? Provide detailed treatment and prevention methods."

Questions ==
    {"How to treat coffee rust",
     "hello",
     "Hi what coffee disease is it",
     "which coffee disease is this",
     "what is the capital of France",
     "leaf miner treatment",
     RemedyQuestion("rust")}

Answers ==
    {"Coffee rust is treated with copper fungicide and pruning.",
     "According to the provided coffee leaf disease guide, rust is common.",
     "Leaf miner damage on coffee is treated with neem.",
     "  Use copper spray.  ",
     "* coffee rust: treat with fungicide sprays",
     "* How to treat coffee rust: use copper fungicide",
     "Helpful Answer: Coffee rust is treated with copper fungicide. ",
     "Apply fungicide every two weeks during rains."}

DocLists ==
    {<<>>,
     <<"Coffee leaf rust is caused by the fungus Hemileia vastatrix.">>,
     <<"rust", "   n/a   ">>,
     <<"short", "Copper fungicides control coffee leaf rust effectively.">>}

ChainResps ==
    { ChainResp("ok", a, d) : a \in Answers, d \in DocLists }
        \cup {ChainResp("raise", "", <<>>), ChainResp("nondict", "['no answer']", <<>>)}

LLMTexts ==
    {"  Happy to help with coffee questions!  ",
     "Use a copper fungicide and prune infected leaves."}

LLMResps == { LLMResp("ok", t) : t \in LLMTexts } \cup {LLMResp("raise", "")}

InitBuffers ==
    {<<>>,
     SaveContext(<<>>, "How to treat coffee rust",
                 "Coffee rust is treated with copper fungicide and pruning.")}

ConvQuestions == {"How to treat coffee rust", "hello"}

ConvChainResps ==
    {ChainResp("ok", "Coffee rust is treated with copper fungicide and pruning.",
               <<"Coffee leaf rust is caused by the fungus Hemileia vastatrix.">>),
     ChainResp("ok", "  Use copper spray.  ", <<>>),
     ChainResp("ok", "Apply fungicide every two weeks during rains.", <<>>),
     ChainResp("raise", "", <<>>)}

ConvLLMResps ==
    {LLMResp("ok", "Use a copper fungicide and prune infected leaves."),
     LLMResp("raise", "")}

\* What the user types into the chat form, a blank input among it.
ChatInputs == {"How to treat coffee rust", "hello", "  "}

\* The images put into the file uploader, by what the detector finds on them.
Files == {"healthy", "rust"}

\* The chain's and the LLM's responses to the user's question.
SessionChainResps ==
    {ChainResp("ok", "Coffee rust is treated with copper fungicide and pruning.",
               <<"Coffee leaf rust is caused by the fungus Hemileia vastatrix.">>),
     ChainResp("ok", "Apply fungicide every two weeks during rains.", <<>>),
     ChainResp("raise", "", <<>>)}

SessionLLMResps ==
    {LLMResp("ok", "  Happy to help with coffee questions!  "),
     LLMResp("raise", "")}

\* The chain's and the LLM's responses to the remedy question.
RemedyChainResps ==
    {ChainResp("ok", "Coffee rust is treated with copper fungicide and pruning.",
               <<"Coffee leaf rust is caused by the fungus Hemileia vastatrix.">>),
     ChainResp("raise", "", <<>>)}

RemedyLLMResps == {LLMResp("ok", "  Happy to help with coffee questions!  ")}

AllQuestions == Questions \cup ConvQuestions \cup ChatInputs
AllChainResps == ChainResps \cup ConvChainResps \cup SessionChainResps \cup RemedyChainResps
AllLLMResps == LLMResps \cup ConvLLMResps \cup SessionLLMResps \cup RemedyLLMResps

\* ------------------------------------------------ the call and the memory

\* generate_answer reads its arguments and the two responses only: its replies
\* to the questions, chain responses and LLM responses of the model, tabulated.
Routes ==
    [q \in AllQuestions, conv \in {None, "chain"}, lm \in {None, "llm"},
     cr \in AllChainResps, lr \in AllLLMResps |-> Route(q, conv, lm, cr, lr)]

\* One invocation conversation({"question": q}) on the window memory: the chain
\* reads the window, and saves the turn when it returns an answer.
ChainCall(buf, q, cr) ==
    [supplied |-> LoadMemoryVariables(buf),
     buffer |-> IF cr.kind = "ok" THEN SaveContext(buf, q, cr.answer) ELSE buf]

\* One call of generate_answer with the memory holding buf; its reply, the
\* history the chain read, and the memory after it.
Outcome(answer, sources, buf, chain_calls, supplied, llm_calls, path) ==
    [answer |-> answer, sources |-> sources, buffer |-> buf,
     chain_calls |-> chain_calls, supplied |-> supplied,
     llm_calls |-> llm_calls, path |-> path]

generate_answer(q, conv, lm, buf, cr, lr) ==
    LET r == Routes[q, conv, lm, cr, lr]
        invoked == r.chain_calls # <<>>
    IN  Outcome(r.answer, r.sources,
                IF invoked THEN ChainCall(buf, q, cr).buffer ELSE buf,
                r.chain_calls,
                IF invoked THEN ChainCall(buf, q, cr).supplied ELSE <<>>,
                r.llm_calls, r.path)

NoOutcome == Outcome("", <<>>, <<>>, <<>>, <<>>, <<>>, "not_called")

\* The arguments of the call and the behaviour of its collaborators.
InitGA ==
    /\ question \in Questions
    /\ conversation \in {None, "chain"}
    /\ llm \in {None, "llm"}
    /\ buffer \in InitBuffers
    /\ chain_resp \in ChainResps
    /\ llm_resp \in LLMResps
    /\ before = buffer
    /\ thread_info = <<>>
    /\ out = NoOutcome
    /\ pc = "ready"
    /\ api_key = TRUE
    /\ initialised = TRUE
    /\ memory = IF conversation = None THEN None ELSE "memory"
    /\ chat_history = <<>>
    /\ detection_completed = FALSE
    /\ latest_sources = NoSources
    /\ uploaded_file = "none"
    /\ rerun_pending = FALSE
    /\ page = BlankPage
    /\ event = NoEvent

CallGenerateAnswer ==
    /\ pc = "ready"
    /\ out' = generate_answer(question, conversation, llm, buffer, chain_resp, llm_resp)
    /\ buffer' = out'.buffer
    /\ pc' = "done"
    /\ UNCHANGED <<session_vars, conversation, llm, question, chain_resp, llm_resp, before,
                   thread_info>>

NextGA == CallGenerateAnswer

SpecGA == InitGA /\ [][NextGA]_vars

\* ------------------------------ calls on one conversation (SpecConv)

MaxTurns == 7

InitConv ==
    /\ conversation = "chain"
    /\ llm = "llm"
    /\ memory = "memory"
    /\ buffer = <<>>
    /\ question = ""
    /\ chain_resp = NoChainResp
    /\ llm_resp = NoLLMResp
    /\ before = <<>>
    /\ thread_info = <<>>
    /\ out = NoOutcome
    /\ pc = "idle"
    /\ api_key = TRUE
    /\ initialised = TRUE
    /\ chat_history = <<>>
    /\ detection_completed = FALSE
    /\ latest_sources = NoSources
    /\ uploaded_file = "none"
    /\ rerun_pending = FALSE
    /\ page = BlankPage
    /\ event = NoEvent

\* One more question put to generate_answer on the same conversation.
Ask(q, cr, lr) ==
    /\ Len(buffer) < 2 * MaxTurns
    /\ question' = q
    /\ chain_resp' = cr
    /\ llm_resp' = lr
    /\ before' = buffer
    /\ out' = generate_answer(q, conversation, llm, buffer, cr, lr)
    /\ buffer' = out'.buffer
    /\ pc' = "done"
    /\ UNCHANGED <<session_vars, conversation, llm, thread_info>>

\* reset_conversation_memory(memory)
reset_conversation_memory ==
    /\ memory # None
    /\ buffer # <<>>
    /\ buffer' = <<>>
    /\ pc' = "reset"
    /\ UNCHANGED <<session_vars, conversation, llm, question, chain_resp, llm_resp,
                   before, thread_info, out>>

NextConv ==
    \/ \E q \in ConvQuestions, cr \in ConvChainResps, lr \in ConvLLMResps : Ask(q, cr, lr)
    \/ reset_conversation_memory

SpecConv == InitConv /\ [][NextConv]_vars

\* ------------------------------------------- the page script (Spec)

MaxSessionTurns == 3
MaxExchanges == 2

\* The value main.py compares sources[0] with.
Sentinel == "Fallback to LLM (no retrieved docs)"

\* detect_diseases(img, yolo_model): the classes detected on the image.
detect_diseases(file) == IF file = "rust" THEN <<"rust">> ELSE <<>>

\* `if sources and sources[0] != "Fallback to LLM (no retrieved docs)"`
ShowsSources(sources) == sources # <<>> /\ sources[1] # Sentinel

\* A script that initialises the session state on every run.
NeedsInit_Always == TRUE

\* Lines 13-24: the first run with the key set calls prepare_rag_llm, which
\* returns the chain, the llm and the memory, or None three times.
NeedsInit == ~initialised

Init ==
    /\ api_key \in BOOLEAN
    /\ initialised = FALSE
    /\ conversation = None
    /\ llm = None
    /\ memory = None
    /\ buffer = <<>>
    /\ chat_history = <<>>
    /\ detection_completed = FALSE
    /\ latest_sources = NoSources
    /\ uploaded_file = "none"
    /\ rerun_pending = FALSE
    /\ page = BlankPage
    /\ event = NoEvent
    /\ question = ""
    /\ chain_resp = NoChainResp
    /\ llm_resp = NoLLMResp
    /\ before = <<>>
    /\ thread_info = <<>>
    /\ out = NoOutcome
    /\ pc = "session"

\* Lines 13-24: the session state after the initialisation block. prep is the
\* outcome of prepare_rag_llm, which returns None three times when it fails.
InitBlock(prep) ==
    IF NeedsInit
    THEN [conversation |-> IF prep = "ok" THEN "chain" ELSE None,
          llm |-> IF prep = "ok" THEN "llm" ELSE None,
          memory |-> IF prep = "ok" THEN "memory" ELSE None,
          buffer |-> <<>>,
          chat_history |-> <<>>,
          detection_completed |-> FALSE,
          thread_info |-> <<>>]
    ELSE [conversation |-> conversation,
          llm |-> llm,
          memory |-> memory,
          buffer |-> buffer,
          chat_history |-> chat_history,
          detection_completed |-> detection_completed,
          thread_info |-> thread_info]

\* Line 28: the file in the uploader during this run.
FileInUploader(ev) == IF ev.kind = "upload" THEN ev.file ELSE uploaded_file

\* Lines 30-46: the remedy is generated when the image shows a disease.
RemedyCall(s, file, cr1, lr1) ==
    IF file # "none" /\ detect_diseases(file) # <<>>
    THEN generate_answer(RemedyQuestion(detect_diseases(file)[1]),
                         s.conversation, s.llm, s.buffer, cr1, lr1)
    ELSE [NoOutcome EXCEPT !.buffer = s.buffer]

\* Lines 48-88: what has been drawn when the chat form has been drawn.
Shown(s, det, remedy) ==
    [BlankPage EXCEPT !.remedy_path = remedy.path,
                      !.remedy_expander = ShowsSources(remedy.sources),
                      !.chat_section = det,
                      !.thread = IF det THEN s.chat_history ELSE <<>>]

\* user_question.strip() of the texts the user types, tabulated.
StrippedInputs == [t \in ChatInputs |-> Strip(t)]

\* Line 90: `if submit_button and user_question.strip()`, inside the section.
Submitted(ev, det) == det /\ ev.kind = "submit" /\ StrippedInputs[ev.text] # ""

\* Line 96
ChatCall(ev, s, det, remedy, cr2, lr2) ==
    IF Submitted(ev, det)
    THEN generate_answer(ev.text, s.conversation, s.llm, remedy.buffer, cr2, lr2)
    ELSE NoOutcome

\* Lines 107-114: the display of the latest response's sources.
WithLatestSources(pg, det) ==
    [pg EXCEPT !.sources_expander = det /\ latest_sources.present
                                        /\ latest_sources.value # <<>>
                                        /\ latest_sources.value[1] # Sentinel,
               !.sources_notice = det /\ latest_sources.present
                                      /\ latest_sources.value # <<>>
                                      /\ latest_sources.value[1] = Sentinel]

\* Lines 89-124: the submission, the sources, the Clear button.
ChatSection(ev, s, det, remedy, shown, chat, raw) ==
    IF Submitted(ev, det)
    THEN \* the two appends, latest_sources, st.rerun()
         /\ chat_history' = s.chat_history \o
                                <<<<"You", ev.text>>, <<"Assistant", chat.answer>>>>
         /\ latest_sources' = [present |-> TRUE, value |-> chat.sources]
         /\ buffer' = chat.buffer
         /\ rerun_pending' = TRUE
         /\ page' = [shown EXCEPT !.rendered = "interrupted"]
         /\ thread_info' = Append(s.thread_info, [path |-> chat.path, raw |-> raw])
    ELSE IF det /\ ev.kind = "clear" /\ s.chat_history # <<>>
    THEN \* the sources were drawn before the button was reached
         /\ chat_history' = <<>>
         /\ latest_sources' = NoSources
         /\ thread_info' = <<>>
         /\ IF s.memory = None
            THEN \* None.clear() raises: the run ends without st.rerun()
                 /\ buffer' = remedy.buffer
                 /\ rerun_pending' = FALSE
                 /\ page' = [WithLatestSources(shown, det)
                                EXCEPT !.rendered = "error", !.clear_button = TRUE]
            ELSE /\ buffer' = <<>>
                 /\ rerun_pending' = TRUE
                 /\ page' = [WithLatestSources(shown, det)
                                EXCEPT !.rendered = "interrupted", !.clear_button = TRUE]
    ELSE /\ chat_history' = s.chat_history
         /\ latest_sources' = latest_sources
         /\ thread_info' = s.thread_info
         /\ buffer' = remedy.buffer
         /\ rerun_pending' = FALSE
         /\ page' = [WithLatestSources(shown, det)
                        EXCEPT !.rendered = "full",
                               !.clear_button = det /\ s.chat_history # <<>>]

\* Lines 47-124, with the remedy generated.
AfterRemedy(ev, s, det, remedy, cr2, lr2) ==
    ChatSection(ev, s, det, remedy, Shown(s, det, remedy),
                ChatCall(ev, s, det, remedy, cr2, lr2), cr2.answer)

\* Lines 26-124, with the session state initialised.
AfterInit(ev, s, file, cr1, lr1, cr2, lr2) ==
    /\ initialised' = TRUE
    /\ conversation' = s.conversation
    /\ llm' = s.llm
    /\ memory' = s.memory
    /\ uploaded_file' = file
    /\ detection_completed' = (s.detection_completed \/ file # "none")
    /\ AfterRemedy(ev, s, s.detection_completed \/ file # "none",
                   RemedyCall(s, file, cr1, lr1), cr2, lr2)

\* One run of main() for the event ev. prep is the outcome of prepare_rag_llm,
\* cr1 and lr1 the chain's and the LLM's responses to the remedy question, cr2
\* and lr2 their responses to the user's question.
ScriptRun(ev, prep, cr1, lr1, cr2, lr2) ==
    /\ event' = ev
    /\ UNCHANGED <<api_key, pc, question, chain_resp, llm_resp, before, out>>
    /\ IF NeedsInit /\ ~api_key
       THEN \* st.warning(...); return
            /\ page' = [BlankPage EXCEPT !.rendered = "warning"]
            /\ UNCHANGED <<initialised, conversation, llm, memory, buffer,
                           chat_history, detection_completed, latest_sources,
                           uploaded_file, rerun_pending, thread_info>>
       ELSE AfterInit(ev, InitBlock(prep), FileInUploader(ev), cr1, lr1, cr2, lr2)
    /\ Len(buffer') <= 2 * MaxSessionTurns
    /\ Len(chat_history') <= 2 * MaxExchanges

Preps == IF NeedsInit THEN {"ok", "fail"} ELSE {"ok"}

Interactive == ~rerun_pending /\ page.rendered \in {"full", "error"}

\* The responses to the remedy question, asked when file shows a disease.
RemedyEnv(file) ==
    IF detect_diseases(file) # <<>>
    THEN RemedyChainResps \X RemedyLLMResps
    ELSE {<<NoChainResp, NoLLMResp>>}

\* The responses to the user's question, asked when text is not blank.
ChatEnv(text) ==
    IF StrippedInputs[text] # ""
    THEN SessionChainResps \X SessionLLMResps
    ELSE {<<NoChainResp, NoLLMResp>>}

\* The page is loaded, or rerun by an interaction that changes no widget.
Load ==
    /\ ~rerun_pending
    /\ \E prep \in Preps, env \in RemedyEnv(uploaded_file) :
          ScriptRun(Event("load", "", "none"), prep, env[1], env[2], NoChainResp, NoLLMResp)

\* The run st.rerun() asked for.
Rerun ==
    /\ rerun_pending
    /\ \E env \in RemedyEnv(uploaded_file) :
          ScriptRun(Event("rerun", "", "none"), "ok", env[1], env[2], NoChainResp, NoLLMResp)

\* The user puts an image into the uploader, or takes it out.
Upload ==
    /\ Interactive
    /\ \E f \in (Files \cup {"none"}) \ {uploaded_file} :
          \E env \in RemedyEnv(f) :
              ScriptRun(Event("upload", "", f), "ok", env[1], env[2], NoChainResp, NoLLMResp)

\* The user sends the chat form.
Submit ==
    /\ Interactive
    /\ page.chat_section
    /\ \E text \in ChatInputs :
          \E env1 \in RemedyEnv(uploaded_file), env2 \in ChatEnv(text) :
              ScriptRun(Event("submit", text, "none"), "ok", env1[1], env1[2], env2[1], env2[2])

\* The user clicks Clear Chat History.
Clear ==
    /\ Interactive
    /\ page.clear_button
    /\ \E env \in RemedyEnv(uploaded_file) :
          ScriptRun(Event("clear", "", "none"), "ok", env[1], env[2], NoChainResp, NoLLMResp)

Next == Load \/ Rerun \/ Upload \/ Submit \/ Clear

Spec == Init /\ [][Next]_vars

\* ============================================================== claims
\* ------------------------------------------- generate_answer (SpecGA)

IsLetter(c) == c \in DOMAIN ToLower \/ c \in { ToLower[u] : u \in DOMAIN ToLower }

\* A greeting phrase occurs in the question as a word or phrase of its own: not
\* inside a longer word.
GreetingAsOwnPhrase(q) ==
    \E g \in general_greetings :
        \E i \in 0..(Len(q) - Len(g)) :
            /\ SubSeq(Lower(q), i + 1, i + Len(g)) = g
            /\ (i = 0 \/ ~IsLetter(Char(q, i)))
            /\ (i + Len(g) = Len(q) \/ ~IsLetter(Char(q, i + Len(g) + 1)))

ContainsKeyword(q) == \E w \in coffee_keywords : Contains(Lower(q), w)

ContainsGreeting(q) == \E g \in general_greetings : Contains(Lower(q), g)

Returned == pc = "done"

\* C1: with an initialised conversation, every question that contains a domain
\* keyword and in which no greeting phrase occurs as a word or phrase of its own
\* ('which', 'this' and 'think' only contain one) is sent to the retrieval chain
\* exactly once.
C1_RelevantQuestionReachesChain ==
    (Returned /\ conversation # None /\ ContainsKeyword(question)
        /\ ~GreetingAsOwnPhrase(question))
    => out.chain_calls = <<question>>

\* The unusable-answer heuristics as the claim C2 words them, on the answer
\* after the "Helpful Answer:" cleanup.
JudgedUnusable(q, a) ==
    \/ Contains(Lower(a), "according to the provided coffee leaf disease guide")
    \/ Contains(Lower(a), "leaf miner") /\ ~Contains(Lower(q), "leaf miner")
    \/ Len(Strip(a)) < 20
    \/ StartsWith(Strip(a), "*") /\ ~Contains(Lower(a), Lower(q))
    \/ 10 * Cardinality(Words(Lower(q)) \cap Words(Lower(a))) < Cardinality(Words(Lower(q)))

ChainReturnedAnswer ==
    Returned /\ conversation # None /\ out.chain_calls # <<>> /\ chain_resp.kind = "ok"

FallbackReplaces ==
    (ChainReturnedAnswer /\ JudgedUnusable(question, CleanAnswer(chain_resp.answer))
        /\ llm # None /\ llm_resp.kind = "ok")
    => /\ out.answer = Strip(llm_resp.text)
       /\ out.sources = <<"Generated from general agricultural knowledge">>

AllShort(docs) == \A i \in 1..Len(docs) : Len(Strip(docs[i])) < 20

\* C2 as stated: an unusable chain answer is replaced by the LLM's output with the
\* one source 'Generated from general agricultural knowledge', and a usable one is
\* returned with the retrieved documents' texts as sources.
C2_UsableAnswerKeepsDocumentTexts ==
    /\ FallbackReplaces
    /\ (ChainReturnedAnswer /\ ~JudgedUnusable(question, CleanAnswer(chain_resp.answer)))
       => /\ out.answer = CleanAnswer(chain_resp.answer)
          /\ out.sources = chain_resp.docs

\* C2 as amended: a usable chain answer is returned with the retrieved documents'
\* texts as sources, unless there is no document or every text is shorter than 20
\* characters after stripping: then the sources are ['Retrieved from knowledge base'].
C2_FallbackOrDocumentSources ==
    /\ FallbackReplaces
    /\ (ChainReturnedAnswer /\ ~JudgedUnusable(question, CleanAnswer(chain_resp.answer)))
       => /\ out.answer = CleanAnswer(chain_resp.answer)
          /\ out.sources = IF chain_resp.docs = <<>> \/ AllShort(chain_resp.docs)
                           THEN <<"Retrieved from knowledge base">>
                           ELSE chain_resp.docs

\* An answer only the similarity check rejects was replaced by the LLM's output.
C2_Witness ==
    /\ ChainReturnedAnswer
    /\ chain_resp.answer = "Apply fungicide every two weeks during rains."
    /\ llm # None /\ llm_resp.kind = "ok"
    /\ out.answer = Strip(llm_resp.text)
    /\ out.sources = <<"Generated from general agricultural knowledge">>

\* C6: generate_answer returns an (answer, sources) pair whatever the chain and the
\* LLM do: 'RAG system not initialized.' and no sources without a conversation; the
\* LLM's answer with the one 'system temporarily unavailable' source when the chain
\* raises and the LLM succeeds; an apology and no sources when the chain raises and
\* the LLM is absent or raises too; the chain's own answer when the chain answers
\* and the fallback LLM call raises.
C6_NoFailurePropagates ==
    Returned =>
        /\ out.path # "raised"
        /\ conversation = None => out.answer = NotInitializedMsg /\ out.sources = <<>>
        /\ (conversation # None /\ out.chain_calls # <<>> /\ chain_resp.kind = "raise") =>
              IF llm # None /\ llm_resp.kind = "ok"
              THEN /\ out.answer = llm_resp.text
                   /\ out.sources =
                        <<"Generated from general knowledge (system temporarily unavailable)">>
              ELSE /\ out.answer \in {ApologyMsg, SorryMsg}
                   /\ out.sources = <<>>
        /\ (ChainReturnedAnswer /\ llm # None /\ llm_resp.kind = "raise") =>
              out.answer = CleanAnswer(chain_resp.answer)

\* The chain raised and the LLM fallback raised too: the apology came back.
C6_Witness ==
    /\ Returned /\ conversation # None /\ out.chain_calls = <<question>>
    /\ chain_resp.kind = "raise" /\ llm # None /\ llm_resp.kind = "raise"
    /\ out.answer = ApologyMsg /\ out.sources = <<>>

\* C7: a question that contains a greeting phrase or no domain keyword never
\* reaches the retrieval chain, so the memory is left as it was, and costs at most
\* one direct LLM call, with the greeting prompt when it is a greeting; with or
\* without an llm object, whether or not the LLM call raises.
C7_GreetingsBypassChain ==
    (Returned /\ conversation # None
        /\ (ContainsGreeting(question) \/ ~ContainsKeyword(question)))
    => /\ out.chain_calls = <<>>
       /\ buffer = before
       /\ Len(out.llm_calls) <= 1
       /\ (ContainsGreeting(question) /\ out.llm_calls # <<>>) => out.llm_calls = <<"greeting">>

\* A greeting put to a conversation without an llm object reached the chain.
C7_Witness ==
    /\ Returned /\ conversation # None /\ llm = None
    /\ ContainsGreeting(question)
    /\ out.chain_calls = <<question>>

\* ------------------------------------------- the window memory (SpecConv)

\* The turns of a message list: its (question, answer) pairs, in order.
Turns(msgs) == [i \in 1..(Len(msgs) \div 2) |-> <<msgs[2 * i - 1], msgs[2 * i]>>]

Min(a, b) == IF a < b THEN a ELSE b

\* C3: the chat history supplied to a chain call is the 5 most recent recorded
\* turns, or all of them when there are fewer, in the order they occurred: no
\* turn older than those 5 is supplied.
C3_WindowOfFiveTurns ==
    (pc = "done" /\ out.chain_calls # <<>>) =>
        LET recorded == Turns(before)
            supplied == Turns(out.supplied)
            n == Len(recorded)
            m == Len(supplied)
        IN  /\ Len(before) = 2 * n
            /\ Len(out.supplied) = 2 * m
            /\ m = Min(5, n)
            /\ \A i \in 1..m : supplied[i] = recorded[n - m + i]

\* The chain was called with six turns recorded: the oldest was left out.
C3_Witness ==
    /\ pc = "done" /\ out.chain_calls # <<>>
    /\ Len(before) = 12
    /\ Len(out.supplied) = 10
    /\ out.supplied[1] = before[3]

\* ------------------------------------------------- the page script (Spec)

\* C4: the session state is initialised once, on the first run with the API key
\* set, and kept afterwards; chat_history then changes only when a non-blank
\* submission appends one ('You', question) entry followed by one ('Assistant',
\* answer) entry and when Clear Chat History empties it: a load, a rerun or an
\* upload, with its detection and remedy, leaves it as it was.
C4_SessionStatePersists ==
    [][ /\ ~initialised =>
              /\ chat_history = <<>>
              /\ initialised' = api_key
              /\ initialised' => chat_history' = <<>> /\ ~detection_completed'
        /\ initialised =>
              /\ initialised'
              /\ conversation' = conversation /\ llm' = llm /\ memory' = memory
              /\ detection_completed => detection_completed'
              /\ IF event'.kind = "submit" /\ Strip(event'.text) # ""
                 THEN /\ Len(chat_history') = Len(chat_history) + 2
                      /\ SubSeq(chat_history', 1, Len(chat_history)) = chat_history
                      /\ chat_history'[Len(chat_history) + 1] = <<"You", event'.text>>
                      /\ chat_history'[Len(chat_history) + 2][1] = "Assistant"
                 ELSE IF event'.kind = "clear"
                 THEN chat_history' = <<>>
                 ELSE chat_history' = chat_history
      ]_vars

\* Two exchanges are in the thread and an image has just been uploaded.
C4_Witness ==
    /\ initialised
    /\ Len(chat_history) = 4
    /\ event.kind = "upload" /\ uploaded_file = "rust"
    /\ page.rendered = "full"

\* The paths of generate_answer whose answer a direct LLM call produced, and
\* those whose answer the chain produced from the retrieved documents.
LLMPaths == {"direct", "chain_replaced", "unavailable"}

GroundedPaths == {"chain", "chain_kept"}

LatestPath == thread_info[Len(thread_info)].path

\* C5: when the latest answer came from a direct LLM call (greeting or off-topic
\* reply, unusable-answer fallback, chain-failure fallback) the page shows the
\* general-knowledge notice and no sources expander; the expanders of the remedy
\* and of the latest response are shown only for retrieved document texts.
C5_FallbackAnswersShowNotice ==
    /\ (page.rendered = "full" /\ thread_info # <<>> /\ LatestPath \in LLMPaths)
          => page.sources_notice /\ ~page.sources_expander
    /\ page.sources_expander => thread_info # <<>> /\ LatestPath \in GroundedPaths
    /\ page.remedy_expander => page.remedy_path \in GroundedPaths

\* C8: Clear Chat History, offered only while chat_history is not empty, empties
\* chat_history, removes latest_sources and clears the memory, leaving
\* conversation, llm and detection_completed alone; and when the page is next
\* drawn, by the rerun it asked for, chat_history is empty, no sources of a latest
\* response are shown and the memory still holds no turn.
C8_ClearLeavesMemoryEmpty ==
    [][ /\ event'.kind = "clear" =>
              /\ chat_history # <<>>
              /\ chat_history' = <<>>
              /\ ~latest_sources'.present
              /\ buffer' = <<>>
              /\ conversation' = conversation /\ llm' = llm
              /\ detection_completed' = detection_completed
        /\ (event.kind = "clear" /\ rerun_pending /\ event'.kind = "rerun") =>
              /\ page'.rendered = "full"
              /\ chat_history' = <<>>
              /\ ~page'.sources_expander /\ ~page'.sources_notice
              /\ buffer' = <<>>
      ]_vars

\* The exchanges of the thread: question, answer shown, and how it was produced.
Exchanges ==
    [i \in 1..Len(thread_info) |->
        [q |-> chat_history[2 * i - 1][2],
         shown |-> chat_history[2 * i][2],
         path |-> thread_info[i].path,
         raw |-> thread_info[i].raw]]

\* The turn of x in the memory, with the answer recorded being the one shown.
HasTurnShown(x) ==
    \E j \in 1..(Len(buffer) \div 2) :
        Turns(buffer)[j] = <<Message("human", x.q), Message("ai", x.shown)>>

ChainAnsweredPaths == {"chain", "chain_kept", "chain_replaced"}

IsChainAnswered(x) == x.path \in ChainAnsweredPaths

IsChatTurn(t) == ~StartsWith(t[1].content, "What is the remedy for ")

TurnOf(x) == <<Message("human", x.q), Message("ai", x.raw)>>

====
